---- MODULE Spec2Model ----
(***************************************************************************)
(* Model of the single-publisher single-consumer shared channel of         *)
(* src/src/spsc.rs together with the length-prefixed framing of            *)
(* src/src/lib.rs.  Every Atomics::load / Atomics::store / Atomics::notify *)
(* / Atomics::wait and every arena byte access is one step of the sender   *)
(* or of the receiver; Spec interleaves the two sides arbitrarily, SeqSpec *)
(* runs one call at a time, and HandleSpec adds the Channel objects of     *)
(* src/example/src/lib.rs: export, import and the taking of the sender.    *)
(***************************************************************************)
EXTENDS Integers, Sequences, FiniteSets, TLC

---------------------------------------------------------------------------
(* Bounds of the model *)

\* capacity of the arena in bytes: the argument of channel(len)
len == 12
\* number of send calls made on the channel when the sides interleave
MaxSends == 4
\* number of send calls made on the channel when calls run one at a time
MaxSeqSends == 5
\* the receiver's count of NeedBytes answers within one call saturates here
MaxRounds == 3
\* number of send calls made when channels are exported and imported
MaxHandleSends == 3
\* channel objects over the arena: the one constructed and the imported ones
MaxChannels == 2

---------------------------------------------------------------------------
(* Header slots, src/src/spsc.rs:61-64 *)

A_START == 0
A_END == 1
B_END == 2
B_USE == 3

HeaderSlots == {A_START, A_END, B_END, B_USE}

---------------------------------------------------------------------------
(* u32 arithmetic.  TLC's integers are 32-bit signed, so the wrap-around   *)
(* of an unsigned subtraction is taken at 2^30 instead of 2^32: every      *)
(* operand of the model is below 2^26, hence every comparison of a wrapped *)
(* difference has the outcome it has at 2^32.                              *)

WordModulus == 2^30

Sub32(a, b) == IF a >= b THEN a - b ELSE WordModulus + a - b

Add32(a, b) == (a + b) % WordModulus

Min(a, b) == IF a < b THEN a ELSE b

---------------------------------------------------------------------------
(* Framing codec, src/src/lib.rs *)

\* u32::to_ne_bytes on wasm32 (little endian)
to_ne_bytes(n) ==
    << n % 256, (n \div 256) % 256, (n \div 65536) % 256, (n \div 16777216) % 256 >>

\* u32::from_ne_bytes on wasm32 (little endian)
from_ne_bytes(b) == b[1] + 256 * b[2] + 65536 * b[3] + 16777216 * b[4]

\* The value types bound to the two handles of a channel: the sender's T
\* and the receiver's T.  A handle rebuilt from an exported arena names its
\* own T, so the two can differ (the "wrong value type" of a decode failure).
TypePairs == { <<"unit", "unit">>, <<"optbool", "optbool">>, <<"u8", "optbool">> }

\* the values of each type that the model sends
Values(t) ==
    CASE t = "unit" -> {"()"}
      [] t = "optbool" -> {"None", "Some(true)"}
      [] t = "u8" -> {"2u8"}

\* bincode::serialize: () is empty, Option<bool> is a tag byte and the
\* bool byte, u8 is the byte itself
bincode_serialize(v) ==
    CASE v = "()" -> << >>
      [] v = "None" -> <<0>>
      [] v = "Some(false)" -> <<1, 0>>
      [] v = "Some(true)" -> <<1, 1>>
      [] v = "2u8" -> <<2>>

\* bincode::deserialize::<T>(&data[4..]); trailing bytes are ignored
bincode_deserialize(t, p) ==
    CASE t = "unit" -> [ok |-> TRUE, value |-> "()"]
      [] t = "u8" ->
            IF Len(p) >= 1 /\ p[1] = 2 THEN [ok |-> TRUE, value |-> "2u8"]
            ELSE IF Len(p) >= 1 THEN [ok |-> TRUE, value |-> "otheru8"]
            ELSE [ok |-> FALSE, value |-> "eof"]
      [] t = "optbool" ->
            IF Len(p) = 0 THEN [ok |-> FALSE, value |-> "eof"]
            ELSE IF p[1] = 0 THEN [ok |-> TRUE, value |-> "None"]
            ELSE IF p[1] # 1 THEN [ok |-> FALSE, value |-> "invalid tag"]
            ELSE IF Len(p) < 2 THEN [ok |-> FALSE, value |-> "eof"]
            ELSE IF p[2] = 0 THEN [ok |-> TRUE, value |-> "Some(false)"]
            ELSE IF p[2] = 1 THEN [ok |-> TRUE, value |-> "Some(true)"]
            ELSE [ok |-> FALSE, value |-> "invalid bool"]

\* Shareable::to_bytes: the 4-byte length prefix, then the encoding
to_bytes(v) == to_ne_bytes(Len(bincode_serialize(v))) \o bincode_serialize(v)

\* Shareable::from on a probe buffer of byte_length n whose leading bytes
\* are arr (a buffer longer than the arena is never filled: the bytes past
\* arr are the zeros it was allocated with, and none of them is read)
Shareable_from(t, n, arr) ==
    IF n = 0 THEN [kind |-> "Expects", n |-> 4, value |-> "-"]
    ELSE IF n >= 4 THEN
        IF n = 4
        THEN [kind |-> "Expects", n |-> Add32(4, from_ne_bytes(arr)), value |-> "-"]
        ELSE LET d == bincode_deserialize(t, SubSeq(arr, 5, Len(arr)))
             IN  IF d.ok THEN [kind |-> "Ok", n |-> 0, value |-> d.value]
                 ELSE [kind |-> "Err", n |-> 0, value |-> d.value]
    ELSE [kind |-> "Err", n |-> 0, value |-> "unexpected data"]

\* Uint8Array::new_with_length(sz): zero filled
Zeros(n) == [i \in 1..n |-> 0]

new_with_length(sz) == Zeros(Min(sz, len))

---------------------------------------------------------------------------
(* State *)

VARIABLES
    ty,            \* <<sender's T, receiver's T>>
    sched,         \* how the calls are run, see Scheduling below
    senders,       \* the Sender handles that exist, each a SharedChannel view
    receivers,     \* the Receiver handles that exist, each a SharedChannel view
    chans,         \* the Channel objects: [sender: Option<Sender>, receiver]
    exported,      \* exported JsValues not yet imported: arrays of buffers
    handed,        \* the Senders that Channel::sender() has handed out
    take_ret,      \* what the last Channel::sender() returned
    header,        \* the four header slots (Int32Array over the shared buffer)
    data,          \* the arena bytes, positions 0 .. len-1
    \* Sender::send
    spc,           \* the sender's position in send
    s_obj,         \* the Sender handle the call in progress is made through
    s_value,       \* the value being sent
    s_bytes,       \* bytes = value.to_bytes()
    s_a_start,     \* unused(): a_start
    s_end_header,  \* end_header
    s_end,         \* end
    s_i,           \* the write loop's i
    s_ms,          \* maybe_switch(): <<a_start, a_end>> loaded so far
    s_ret,         \* what the last send returned
    s_hdr0,        \* the header when the call in progress started (AtCall)
    s_data0,       \* the arena when the call in progress started (AtCall)
    nsends,        \* send calls made
    \* Receiver::recv
    rpc,           \* the receiver's position in recv
    r_obj,         \* the Receiver handle the call in progress is made through
    r_timeout,     \* timeout: "None" or "Some"
    r_sz,          \* array.byte_length()
    r_array,       \* array
    r_a_start,     \* a_start
    r_a_end,       \* a_end
    r_b_end,       \* b_end
    r_b_use,       \* b_use
    r_i,           \* the copy loop's i
    r_ms,          \* maybe_switch(): <<a_start, a_end>> loaded so far
    r_ret,         \* what the last recv returned: <<kind, value>>
    r_rounds,      \* Expects answers taken at the top of the loop in this call
    r_stored,      \* the call has stored to the header
    r_hdr0,        \* the header when the call in progress started (AtCall)
    \* history
    sent,          \* values whose frame the sender committed, in order
    sent_via,      \* the Sender handle each of them was sent through
    received,      \* values recv returned, in order
    delivered      \* the <<Sender handle, Receiver handle>> pairs a value went through

\* the handles: what no step of send or recv changes
handles == <<senders, receivers, chans, exported, handed, take_ret>>
static == <<ty, sched, handles>>
shared == <<static, header, data>>
svars == <<spc, s_obj, s_value, s_bytes, s_a_start, s_end_header, s_end, s_i, s_ms,
           s_ret, s_hdr0, s_data0, nsends, sent, sent_via>>
rvars == <<rpc, r_obj, r_timeout, r_sz, r_array, r_a_start, r_a_end, r_b_end, r_b_use,
           r_i, r_ms, r_ret, r_rounds, r_stored, r_hdr0, received, delivered>>
vars == <<shared, svars, rvars>>

NoHdr == [k \in HeaderSlots |-> 0]
NoData == [p \in 0 .. len - 1 |-> 0]

---------------------------------------------------------------------------
(* Handles.  A SharedChannel is a view: the two SharedArrayBuffers it was  *)
(* built over and the len it read off the data buffer.  The model follows  *)
(* the one arena that channel(len) allocates: header and data above are    *)
(* the contents of its two buffers.                                        *)

\* the SharedArrayBuffers channel(len) allocates, src/src/spsc.rs:132-133
HeaderBuffer == "header buffer"
DataBuffer == "data buffer"

\* SharedArrayBuffer.byteLength: the header is 4 * size_of::<u32>() bytes
byte_length(b) == IF b = HeaderBuffer THEN 4 * 4 ELSE len

\* channel_(header, data): the views over the two buffers, len off the data
channel_(hb, db) == [header |-> hb, data |-> db, len |-> byte_length(db)]

\* channel(len)
channel == channel_(HeaderBuffer, DataBuffer)

\* From<SharedChannel<T>> for JsValue: the array [_header, _data]
JsValueFrom(ch) == <<ch.header, ch.data>>

\* SharedChannelFrom taking the two buffers off the array in the other order
SharedChannelFromDataFirst(array) == channel_(array[2], array[1])

\* From<JsValue> for SharedChannel<T>: shift() the header, shift() the data
SharedChannelFrom(array) == channel_(Head(array), Head(Tail(array)))

\* the handle's header and data are the arena's: its loads, stores and byte
\* accesses are the ones on header and data
ViewsTheArena(ch) == ch.header = HeaderBuffer /\ ch.data = DataBuffer

\* Channel::new() / channel(len).split(): SharedArrayBuffer::new zero-fills
\* the header and the arena; split makes the one Sender and the one Receiver
Constructed ==
    /\ header = [k \in HeaderSlots |-> 0]
    /\ data = [p \in 0 .. len - 1 |-> 0]
    /\ senders = <<channel>> /\ receivers = <<channel>>
    /\ chans = <<[sender |-> 1, receiver |-> 1]>>
    /\ exported = << >> /\ handed = {} /\ take_ret = "-"
    /\ s_obj = 0 /\ r_obj = 0 /\ sent_via = << >> /\ delivered = {}
    /\ spc = "idle" /\ s_value = "-" /\ s_bytes = << >> /\ s_a_start = 0
    /\ s_end_header = A_END /\ s_end = 0 /\ s_i = 0 /\ s_ms = << >>
    /\ s_ret = "-" /\ s_hdr0 = NoHdr /\ s_data0 = NoData /\ nsends = 0
    /\ rpc = "idle" /\ r_timeout = "None" /\ r_sz = 0 /\ r_array = << >>
    /\ r_a_start = 0 /\ r_a_end = 0 /\ r_b_end = 0 /\ r_b_use = FALSE
    /\ r_i = 0 /\ r_ms = << >> /\ r_ret = <<"-", "-">> /\ r_rounds = 0
    /\ r_stored = FALSE /\ r_hdr0 = NoHdr
    /\ sent = << >> /\ received = << >>

\* a channel bound to one of the type pairs, run in one of the ways
Init ==
    /\ ty \in TypePairs
    /\ sched \in {"interleaved", "one call at a time"}
    /\ Constructed

---------------------------------------------------------------------------
(* Scheduling.  Interleaved: the two sides run in their own threads and    *)
(* any step of one may fall between two steps of the other.  One call at a *)
(* time: a side steps only while the other is outside a call (both handles *)
(* used from one thread, as the tests of src/src/spsc.rs do).  One call at *)
(* a time, any handle: the same, with channels exported, imported and      *)
(* their senders taken between the calls.                                  *)

SenderMayStep == sched = "interleaved" \/ rpc = "idle"

ReceiverMayStep == sched = "interleaved" \/ spc = "idle"

SendBound ==
    CASE sched = "interleaved" -> MaxSends
      [] sched = "one call at a time" -> MaxSeqSends
      [] OTHER -> MaxHandleSends

\* History of the state a call started in: x when calls run one at a time,
\* where "the state before the call" is what the other side left; when the
\* sides interleave the other side moves during the call and nothing is kept.
AtCall(x, nothing) == IF sched = "one call at a time" THEN x ELSE nothing

---------------------------------------------------------------------------
(* SharedChannel::maybe_switch, the comparison of src/src/spsc.rs:86 *)

\* SwitchWanted switching on a tie as well
SwitchWantedOnTie(a_start, a_end, b_end) == Sub32(len, a_end) <= Sub32(a_start, b_end)

SwitchWanted(a_start, a_end, b_end) == Sub32(len, a_end) < Sub32(a_start, b_end)

---------------------------------------------------------------------------
(* Sender::send, src/src/spsc.rs:162-184 *)

\* the sender's locals once a call has returned
SenderReturn(ret) ==
    /\ spc' = "idle" /\ s_ret' = ret /\ s_obj' = 0
    /\ s_value' = "-" /\ s_bytes' = << >> /\ s_a_start' = 0
    /\ s_end_header' = A_END /\ s_end' = 0 /\ s_i' = 0 /\ s_ms' = << >>
    /\ s_hdr0' = NoHdr /\ s_data0' = NoData

\* SpaceCheck refusing a frame that fills the free space exactly
SpaceCheckRefusesExactFit(free) ==
    IF free <= Len(s_bytes)
    THEN /\ SenderReturn("not enough space")
         /\ UNCHANGED <<nsends, sent, sent_via>>
    ELSE /\ spc' = "load_b_use"
         /\ UNCHANGED <<s_obj, s_value, s_bytes, s_a_start, s_end_header, s_end, s_i,
                        s_ms, s_ret, s_hdr0, s_data0, nsends, sent, sent_via>>

\* line 167: unused() < len fails the send, else it goes on to line 170
SpaceCheck(free) ==
    IF free < Len(s_bytes)
    THEN /\ SenderReturn("not enough space")
         /\ UNCHANGED <<nsends, sent, sent_via>>
    ELSE /\ spc' = "load_b_use"
         /\ UNCHANGED <<s_obj, s_value, s_bytes, s_a_start, s_end_header, s_end, s_i,
                        s_ms, s_ret, s_hdr0, s_data0, nsends, sent, sent_via>>

\* lines 163-166: the call, and to_bytes
SendCall(h, v) ==
    /\ spc = "idle" /\ SenderMayStep /\ nsends < SendBound
    /\ ViewsTheArena(senders[h])
    /\ spc' = "unused_b_use" /\ s_obj' = h
    /\ s_value' = v /\ s_bytes' = to_bytes(v)
    /\ s_hdr0' = AtCall(header, NoHdr) /\ s_data0' = AtCall(data, NoData)
    /\ nsends' = nsends + 1
    /\ UNCHANGED <<s_a_start, s_end_header, s_end, s_i, s_ms, s_ret, sent, sent_via>>
    /\ UNCHANGED <<shared, rvars>>

\* unused(), line 71
S_UnusedLoadBUse ==
    /\ spc = "unused_b_use" /\ SenderMayStep
    /\ spc' = IF header[B_USE] = 1 THEN "unused_a_start" ELSE "unused_a_end"
    /\ UNCHANGED <<s_obj, s_value, s_bytes, s_a_start, s_end_header, s_end, s_i, s_ms,
                   s_ret, s_hdr0, s_data0, nsends, sent, sent_via>>
    /\ UNCHANGED <<shared, rvars>>

\* unused(), line 73
S_UnusedLoadAStart ==
    /\ spc = "unused_a_start" /\ SenderMayStep
    /\ spc' = "unused_b_end"
    /\ s_a_start' = header[A_START]
    /\ UNCHANGED <<s_obj, s_value, s_bytes, s_end_header, s_end, s_i, s_ms,
                   s_ret, s_hdr0, s_data0, nsends, sent, sent_via>>
    /\ UNCHANGED <<shared, rvars>>

\* unused(), lines 74-75, and the check of line 167
S_UnusedLoadBEnd ==
    /\ spc = "unused_b_end" /\ SenderMayStep
    /\ SpaceCheck(Sub32(s_a_start, header[B_END]))
    /\ UNCHANGED <<shared, rvars>>

\* unused(), lines 77-78, and the check of line 167
S_UnusedLoadAEnd ==
    /\ spc = "unused_a_end" /\ SenderMayStep
    /\ SpaceCheck(Sub32(len, header[A_END]))
    /\ UNCHANGED <<shared, rvars>>

\* lines 170-171
S_LoadBUse ==
    /\ spc = "load_b_use" /\ SenderMayStep
    /\ spc' = "load_end"
    /\ s_end_header' = IF header[B_USE] = 1 THEN B_END ELSE A_END
    /\ UNCHANGED <<s_obj, s_value, s_bytes, s_a_start, s_end, s_i, s_ms,
                   s_ret, s_hdr0, s_data0, nsends, sent, sent_via>>
    /\ UNCHANGED <<shared, rvars>>

\* line 173
S_LoadEnd ==
    /\ spc = "load_end" /\ SenderMayStep
    /\ spc' = "write"
    /\ s_end' = header[s_end_header]
    /\ s_i' = 0
    /\ UNCHANGED <<s_obj, s_value, s_bytes, s_a_start, s_end_header, s_ms,
                   s_ret, s_hdr0, s_data0, nsends, sent, sent_via>>
    /\ UNCHANGED <<shared, rvars>>

\* Uint8Array::set_index: a store past the end of the array is dropped
set_index(arr, p, b) == IF p \in DOMAIN arr THEN [arr EXCEPT ![p] = b] ELSE arr

\* lines 174-176, one byte of the loop
S_WriteByte ==
    /\ spc = "write" /\ SenderMayStep
    /\ data' = set_index(data, s_end + s_i, s_bytes[s_i + 1])
    /\ s_i' = s_i + 1
    /\ spc' = IF s_i + 1 < Len(s_bytes) THEN "write" ELSE "store_end"
    /\ UNCHANGED <<s_obj, s_value, s_bytes, s_a_start, s_end_header, s_end, s_ms,
                   s_ret, s_hdr0, s_data0, nsends, sent, sent_via>>
    /\ UNCHANGED <<static, header, rvars>>

\* line 177: the frame is committed
S_StoreEnd ==
    /\ spc = "store_end" /\ SenderMayStep
    /\ header' = [header EXCEPT ![s_end_header] = s_end + Len(s_bytes)]
    /\ sent' = Append(sent, s_value)
    /\ sent_via' = Append(sent_via, s_obj)
    /\ spc' = "notify_end"
    /\ UNCHANGED <<s_obj, s_value, s_bytes, s_a_start, s_end_header, s_end, s_i, s_ms,
                   s_ret, s_hdr0, s_data0, nsends>>
    /\ UNCHANGED <<static, data, rvars>>

\* line 178: notify on the write cursor's slot; the receiver parks on
\* A_START only, so nobody is woken
S_NotifyEnd ==
    /\ spc = "notify_end" /\ SenderMayStep
    /\ spc' = "notify_a_start"
    /\ UNCHANGED <<s_obj, s_value, s_bytes, s_a_start, s_end_header, s_end, s_i, s_ms,
                   s_ret, s_hdr0, s_data0, nsends, sent, sent_via>>
    /\ UNCHANGED <<shared, rvars>>

\* line 179: notify on A_START wakes the receiver if it is parked (wait
\* then returns "ok" and recv continues at the top of its loop)
S_NotifyAStart ==
    /\ spc = "notify_a_start" /\ SenderMayStep
    /\ spc' = "ms_a_start"
    /\ rpc' = IF rpc = "parked" THEN "decode" ELSE rpc
    /\ UNCHANGED <<s_obj, s_value, s_bytes, s_a_start, s_end_header, s_end, s_i, s_ms,
                   s_ret, s_hdr0, s_data0, nsends, sent, sent_via>>
    /\ UNCHANGED <<r_obj, r_timeout, r_sz, r_array, r_a_start, r_a_end, r_b_end, r_b_use,
                   r_i, r_ms, r_ret, r_rounds, r_stored, r_hdr0, received, delivered>>
    /\ UNCHANGED shared

\* line 181, maybe_switch() line 83
S_MsLoadAStart ==
    /\ spc = "ms_a_start" /\ SenderMayStep
    /\ spc' = "ms_a_end"
    /\ s_ms' = <<header[A_START]>>
    /\ UNCHANGED <<s_obj, s_value, s_bytes, s_a_start, s_end_header, s_end, s_i,
                   s_ret, s_hdr0, s_data0, nsends, sent, sent_via>>
    /\ UNCHANGED <<shared, rvars>>

\* maybe_switch() line 84
S_MsLoadAEnd ==
    /\ spc = "ms_a_end" /\ SenderMayStep
    /\ spc' = "ms_b_end"
    /\ s_ms' = Append(s_ms, header[A_END])
    /\ UNCHANGED <<s_obj, s_value, s_bytes, s_a_start, s_end_header, s_end, s_i,
                   s_ret, s_hdr0, s_data0, nsends, sent, sent_via>>
    /\ UNCHANGED <<shared, rvars>>

\* maybe_switch() lines 85-86; without a switch send returns Ok at line 183
S_MsLoadBEnd ==
    /\ spc = "ms_b_end" /\ SenderMayStep
    /\ IF SwitchWanted(s_ms[1], s_ms[2], header[B_END])
       THEN /\ spc' = "ms_store"
            /\ UNCHANGED <<s_obj, s_value, s_bytes, s_a_start, s_end_header, s_end, s_i,
                           s_ms, s_ret, s_hdr0, s_data0>>
       ELSE SenderReturn("ok")
    /\ UNCHANGED <<nsends, sent, sent_via>>
    /\ UNCHANGED <<shared, rvars>>

\* maybe_switch() line 87, then Ok at line 183
S_MsStore ==
    /\ spc = "ms_store" /\ SenderMayStep
    /\ header' = [header EXCEPT ![B_USE] = 1]
    /\ SenderReturn("ok")
    /\ UNCHANGED <<nsends, sent, sent_via>>
    /\ UNCHANGED <<static, data, rvars>>

---------------------------------------------------------------------------
(* Receiver::recv, src/src/spsc.rs:201-261 *)

\* the receiver's locals once a call has returned
ReceiverReturn(ret) ==
    /\ rpc' = "idle" /\ r_ret' = ret /\ r_obj' = 0
    /\ r_timeout' = "None" /\ r_sz' = 0 /\ r_array' = << >>
    /\ r_a_start' = 0 /\ r_a_end' = 0 /\ r_b_end' = 0 /\ r_b_use' = FALSE
    /\ r_i' = 0 /\ r_ms' = << >> /\ r_hdr0' = NoHdr
    /\ r_rounds' = 0 /\ r_stored' = FALSE
    /\ received' = IF ret[1] = "Some" THEN Append(received, ret[2]) ELSE received
    /\ delivered' = IF ret[1] = "Some" /\ Len(received) < Len(sent_via)
                    THEN delivered \cup {<<sent_via[Len(received) + 1], r_obj>>}
                    ELSE delivered

\* Provisional with the drain-swap dropping region B instead of promoting it
ProvisionalDropsB(a_start, a_end, b_end, b_use) ==
    IF a_start = a_end
    THEN [a_start |-> 0, a_end |-> 0, b_end |-> 0, b_use |-> FALSE]
    ELSE [a_start |-> a_start, a_end |-> a_end, b_end |-> b_end, b_use |-> b_use]

\* Provisional without the rewind of an empty ring
ProvisionalNoRewind(a_start, a_end, b_end, b_use) ==
    IF a_start = a_end /\ b_use
    THEN [a_start |-> 0, a_end |-> b_end, b_end |-> 0, b_use |-> FALSE]
    ELSE [a_start |-> a_start, a_end |-> a_end, b_end |-> b_end, b_use |-> b_use]

\* Provisional with the drain-swap leaving B_USE set
ProvisionalKeepsBUse(a_start, a_end, b_end, b_use) ==
    IF a_start = a_end
    THEN IF b_use
         THEN [a_start |-> 0, a_end |-> b_end, b_end |-> 0, b_use |-> TRUE]
         ELSE [a_start |-> 0, a_end |-> 0, b_end |-> b_end, b_use |-> b_use]
    ELSE [a_start |-> a_start, a_end |-> a_end, b_end |-> b_end, b_use |-> b_use]

\* lines 234-247: the provisional cursors after n bytes have been taken
Provisional(a_start, a_end, b_end, b_use) ==
    IF a_start = a_end
    THEN IF b_use
         THEN [a_start |-> 0, a_end |-> b_end, b_end |-> 0, b_use |-> FALSE]
         ELSE [a_start |-> 0, a_end |-> 0, b_end |-> b_end, b_use |-> b_use]
    ELSE [a_start |-> a_start, a_end |-> a_end, b_end |-> b_end, b_use |-> b_use]

\* AfterDecode committing whatever the decode of line 248 answered
AfterDecodeCommitsOnError(kind) ==
    IF kind = "Expects" THEN "decode" ELSE "store_b_use"

\* AfterDecode committing on a NeedBytes answer as well
AfterDecodeCommitsOnExpects(kind) ==
    IF kind = "Err" THEN "return" ELSE "store_b_use"

\* lines 248-257: where recv goes on the answer of the decode that gates
\* the commit: an error returns it (the ? of line 249), a value commits,
\* Expects goes round the loop without a store
AfterDecode(kind) ==
    CASE kind = "Err" -> "return"
      [] kind = "Ok" -> "store_b_use"
      [] OTHER -> "decode"

\* line 214: nothing to read at a_start for a probe of sz bytes
NothingToRead(a_start, a_end, sz) == a_start = a_end \/ len < Add32(a_start, sz)

\* lines 201-202: the call, with an empty probe buffer
RecvCall(h, t) ==
    /\ rpc = "idle" /\ ReceiverMayStep
    /\ ViewsTheArena(receivers[h])
    /\ rpc' = "decode" /\ r_obj' = h
    /\ r_timeout' = t
    /\ r_sz' = 0 /\ r_array' = << >>
    /\ r_rounds' = 0 /\ r_stored' = FALSE /\ r_hdr0' = AtCall(header, NoHdr)
    /\ UNCHANGED <<r_a_start, r_a_end, r_b_end, r_b_use, r_i, r_ms, r_ret, received, delivered>>
    /\ UNCHANGED <<shared, svars>>

\* lines 204-211: the top of the loop
R_Decode ==
    /\ rpc = "decode" /\ ReceiverMayStep
    /\ LET res == Shareable_from(ty[2], r_sz, r_array)
       IN  IF res.kind = "Err" THEN ReceiverReturn(<<"Err", res.value>>)
           ELSE IF res.kind = "Ok" THEN ReceiverReturn(<<"Some", res.value>>)
           ELSE /\ rpc' = "load_a_start"
                /\ r_sz' = res.n
                /\ r_array' = new_with_length(res.n)
                /\ r_rounds' = Min(r_rounds + 1, MaxRounds)
                /\ UNCHANGED <<r_obj, r_timeout, r_a_start, r_a_end, r_b_end, r_b_use,
                               r_i, r_ms, r_ret, r_stored, r_hdr0, received, delivered>>
    /\ UNCHANGED <<shared, svars>>

\* line 212
R_LoadAStart ==
    /\ rpc = "load_a_start" /\ ReceiverMayStep
    /\ rpc' = "load_a_end"
    /\ r_a_start' = header[A_START]
    /\ UNCHANGED <<r_obj, r_timeout, r_sz, r_array, r_a_end, r_b_end, r_b_use,
                   r_i, r_ms, r_ret, r_rounds, r_stored, r_hdr0, received, delivered>>
    /\ UNCHANGED <<shared, svars>>

\* lines 213-216: with timeout None nothing to read returns Ok(None)
R_LoadAEnd ==
    /\ rpc = "load_a_end" /\ ReceiverMayStep
    /\ IF NothingToRead(r_a_start, header[A_END], r_sz)
       THEN IF r_timeout = "None"
            THEN ReceiverReturn(<<"None", "-">>)
            ELSE /\ rpc' = "wait"
                 /\ r_a_end' = header[A_END]
                 /\ UNCHANGED <<r_obj, r_timeout, r_sz, r_array, r_a_start, r_b_end, r_b_use,
                                r_i, r_ms, r_ret, r_rounds, r_stored, r_hdr0, received, delivered>>
       ELSE /\ rpc' = "copy"
            /\ r_a_end' = header[A_END]
            /\ r_i' = 0
            /\ UNCHANGED <<r_obj, r_timeout, r_sz, r_array, r_a_start, r_b_end, r_b_use,
                           r_ms, r_ret, r_rounds, r_stored, r_hdr0, received, delivered>>
    /\ UNCHANGED <<shared, svars>>

\* lines 218-223: Atomics.wait on A_START parks only while the slot still
\* holds the value observed at line 212; otherwise it answers "not-equal"
\* and the loop continues (line 227)
R_Wait ==
    /\ rpc = "wait" /\ ReceiverMayStep
    /\ rpc' = IF header[A_START] = r_a_start THEN "parked" ELSE "decode"
    /\ UNCHANGED <<r_obj, r_timeout, r_sz, r_array, r_a_start, r_a_end, r_b_end, r_b_use,
                   r_i, r_ms, r_ret, r_rounds, r_stored, r_hdr0, received, delivered>>
    /\ UNCHANGED <<shared, svars>>

\* lines 224-226: the wait timed out
R_TimedOut ==
    /\ rpc = "parked" /\ ReceiverMayStep
    /\ ReceiverReturn(<<"None", "-">>)
    /\ UNCHANGED <<shared, svars>>

\* lines 231-234, one byte of the loop; a_start += sz after the last one
R_CopyByte ==
    /\ rpc = "copy" /\ ReceiverMayStep
    /\ r_array' = [r_array EXCEPT ![r_i + 1] = data[r_a_start + r_i]]
    /\ IF r_i + 1 < r_sz
       THEN /\ r_i' = r_i + 1
            /\ UNCHANGED <<rpc, r_a_start>>
       ELSE /\ r_i' = 0
            /\ rpc' = "load_b_end"
            /\ r_a_start' = r_a_start + r_sz
    /\ UNCHANGED <<r_obj, r_timeout, r_sz, r_a_end, r_b_end, r_b_use,
                   r_ms, r_ret, r_rounds, r_stored, r_hdr0, received, delivered>>
    /\ UNCHANGED <<shared, svars>>

\* line 235
R_LoadBEnd ==
    /\ rpc = "load_b_end" /\ ReceiverMayStep
    /\ rpc' = "load_b_use"
    /\ r_b_end' = header[B_END]
    /\ UNCHANGED <<r_obj, r_timeout, r_sz, r_array, r_a_start, r_a_end, r_b_use,
                   r_i, r_ms, r_ret, r_rounds, r_stored, r_hdr0, received, delivered>>
    /\ UNCHANGED <<shared, svars>>

\* lines 236-251: the provisional cursors, then the decode that gates the
\* commit: an error returns, Expects goes round the loop, a value commits
R_LoadBUse ==
    /\ rpc = "load_b_use" /\ ReceiverMayStep
    /\ LET p == Provisional(r_a_start, r_a_end, r_b_end, header[B_USE] = 1)
           res == Shareable_from(ty[2], r_sz, r_array)
       IN  IF AfterDecode(res.kind) = "return"
           THEN ReceiverReturn(<<"Err", res.value>>)
           ELSE /\ rpc' = AfterDecode(res.kind)
                /\ r_a_start' = p.a_start
                /\ r_a_end' = p.a_end
                /\ r_b_end' = p.b_end
                /\ r_b_use' = p.b_use
                /\ UNCHANGED <<r_obj, r_timeout, r_sz, r_array, r_i, r_ms, r_ret,
                               r_rounds, r_stored, r_hdr0, received, delivered>>
    /\ UNCHANGED <<shared, svars>>

\* one of the four stores of lines 252-255
R_Store(at, slot, value, next) ==
    /\ rpc = at /\ ReceiverMayStep
    /\ rpc' = next
    /\ header' = [header EXCEPT ![slot] = value]
    /\ r_stored' = TRUE
    /\ UNCHANGED <<r_obj, r_timeout, r_sz, r_array, r_a_start, r_a_end, r_b_end, r_b_use,
                   r_i, r_ms, r_ret, r_rounds, r_hdr0, received, delivered>>
    /\ UNCHANGED <<static, data, svars>>

\* line 252
R_StoreBUse == R_Store("store_b_use", B_USE, IF r_b_use THEN 1 ELSE 0, "store_a_start")

\* line 253
R_StoreAStart == R_Store("store_a_start", A_START, r_a_start, "store_a_end")

\* line 254
R_StoreAEnd == R_Store("store_a_end", A_END, r_a_end, "store_b_end")

\* line 255
R_StoreBEnd == R_Store("store_b_end", B_END, r_b_end, "ms_a_start")

\* line 256, maybe_switch() line 83
R_MsLoadAStart ==
    /\ rpc = "ms_a_start" /\ ReceiverMayStep
    /\ rpc' = "ms_a_end"
    /\ r_ms' = <<header[A_START]>>
    /\ UNCHANGED <<r_obj, r_timeout, r_sz, r_array, r_a_start, r_a_end, r_b_end, r_b_use,
                   r_i, r_ret, r_rounds, r_stored, r_hdr0, received, delivered>>
    /\ UNCHANGED <<shared, svars>>

\* maybe_switch() line 84
R_MsLoadAEnd ==
    /\ rpc = "ms_a_end" /\ ReceiverMayStep
    /\ rpc' = "ms_b_end"
    /\ r_ms' = Append(r_ms, header[A_END])
    /\ UNCHANGED <<r_obj, r_timeout, r_sz, r_array, r_a_start, r_a_end, r_b_end, r_b_use,
                   r_i, r_ret, r_rounds, r_stored, r_hdr0, received, delivered>>
    /\ UNCHANGED <<shared, svars>>

\* maybe_switch() lines 85-86; without a switch recv goes round its loop
R_MsLoadBEnd ==
    /\ rpc = "ms_b_end" /\ ReceiverMayStep
    /\ rpc' = IF SwitchWanted(r_ms[1], r_ms[2], header[B_END]) THEN "ms_store" ELSE "decode"
    /\ UNCHANGED <<r_obj, r_timeout, r_sz, r_array, r_a_start, r_a_end, r_b_end, r_b_use,
                   r_i, r_ms, r_ret, r_rounds, r_stored, r_hdr0, received, delivered>>
    /\ UNCHANGED <<shared, svars>>

\* maybe_switch() line 87, then round the loop
R_MsStore ==
    /\ rpc = "ms_store" /\ ReceiverMayStep
    /\ rpc' = "decode"
    /\ header' = [header EXCEPT ![B_USE] = 1]
    /\ r_stored' = TRUE
    /\ UNCHANGED <<r_obj, r_timeout, r_sz, r_array, r_a_start, r_a_end, r_b_end, r_b_use,
                   r_i, r_ms, r_ret, r_rounds, r_hdr0, received, delivered>>
    /\ UNCHANGED <<static, data, svars>>

---------------------------------------------------------------------------
(* Specifications *)

SenderStep ==
    \/ \E h \in DOMAIN senders : \E v \in Values(ty[1]) : SendCall(h, v)
    \/ S_UnusedLoadBUse \/ S_UnusedLoadAStart \/ S_UnusedLoadBEnd \/ S_UnusedLoadAEnd
    \/ S_LoadBUse \/ S_LoadEnd \/ S_WriteByte \/ S_StoreEnd
    \/ S_NotifyEnd \/ S_NotifyAStart
    \/ S_MsLoadAStart \/ S_MsLoadAEnd \/ S_MsLoadBEnd \/ S_MsStore

ReceiverStep ==
    \/ \E h \in DOMAIN receivers : \E t \in {"None", "Some"} : RecvCall(h, t)
    \/ R_Decode \/ R_LoadAStart \/ R_LoadAEnd \/ R_Wait \/ R_TimedOut
    \/ R_CopyByte \/ R_LoadBEnd \/ R_LoadBUse
    \/ R_StoreBUse \/ R_StoreAStart \/ R_StoreAEnd \/ R_StoreBEnd
    \/ R_MsLoadAStart \/ R_MsLoadAEnd \/ R_MsLoadBEnd \/ R_MsStore

\* one sender and one receiver, their steps interleaving arbitrarily
Next == SenderStep \/ ReceiverStep

---------------------------------------------------------------------------
(* Channel objects and handle transfer, src/example/src/lib.rs:22-67 and   *)
(* src/src/spsc.rs:37-59, 95-120.  These run between calls of send, recv.  *)

RemoveAt(seq, k) == SubSeq(seq, 1, k - 1) \o SubSeq(seq, k + 1, Len(seq))

\* Channel::replica(): a clone of the receiver's SharedChannel, exported
Replica(c) ==
    /\ spc = "idle" /\ rpc = "idle"
    /\ Len(chans) + Len(exported) < MaxChannels
    /\ exported' = Append(exported, JsValueFrom(receivers[chans[c].receiver]))
    /\ UNCHANGED <<senders, receivers, chans, handed, take_ret>>
    /\ UNCHANGED <<ty, sched, header, data, svars, rvars>>

\* Channel::from(val): SharedChannel::from(val).split() makes a Sender and
\* a Receiver over the buffers of the array, and the Channel holding them
ChannelFrom(k) ==
    /\ spc = "idle" /\ rpc = "idle"
    /\ LET ch == SharedChannelFrom(exported[k])
       IN  /\ senders' = Append(senders, ch)
           /\ receivers' = Append(receivers, ch)
    /\ chans' = Append(chans, [sender |-> Len(senders) + 1,
                                receiver |-> Len(receivers) + 1])
    /\ exported' = RemoveAt(exported, k)
    /\ UNCHANGED <<handed, take_ret>>
    /\ UNCHANGED <<ty, sched, header, data, svars, rvars>>

\* Channel::sender(): self.sender.take()
TakeSender(c) ==
    /\ spc = "idle" /\ rpc = "idle"
    /\ IF chans[c].sender # 0
       THEN /\ handed' = handed \cup {chans[c].sender}
            /\ take_ret' = "ok"
            /\ chans' = [chans EXCEPT ![c].sender = 0]
       ELSE /\ take_ret' = "sender is already taken"
            /\ UNCHANGED <<handed, chans>>
    /\ UNCHANGED <<senders, receivers, exported>>
    /\ UNCHANGED <<ty, sched, header, data, svars, rvars>>

HandleStep ==
    \/ \E c \in DOMAIN chans : Replica(c)
    \/ \E k \in DOMAIN exported : ChannelFrom(k)
    \/ \E c \in DOMAIN chans : TakeSender(c)

HandleNext == HandleStep \/ SenderStep \/ ReceiverStep

\* the handles of one arena all bound to the same value type
InitHandles ==
    /\ ty = <<"optbool", "optbool">>
    /\ sched = "one call at a time, any handle"
    /\ Constructed

\* calls one at a time through any of the handles over the arena, with
\* channels exported and imported and senders taken in between
HandleSpec == InitHandles /\ [][HandleNext]_vars

InitInterleaved == Init /\ sched = "interleaved"

InitSeq == Init /\ sched = "one call at a time"

\* the two sides in their own threads
Spec == InitInterleaved /\ [][Next]_vars

\* send and recv calls executed one at a time, in any order
SeqSpec == InitSeq /\ [][Next]_vars

\* SeqSpec with a receiver that keeps running: recv is straight-line code
\* and a loop in one thread, so a call in progress always takes its next
\* step (a parked wait ends at its timeout)
SeqFairSpec == SeqSpec /\ WF_vars(ReceiverStep)

---------------------------------------------------------------------------
(* Properties *)

IsPrefix(s, t) == Len(s) <= Len(t) /\ SubSeq(t, 1, Len(s)) = s

\* the frame of value v lies in the arena at position p
FrameAt(p, v) == \A i \in 1 .. Len(to_bytes(v)) : data[p + i - 1] = to_bytes(v)[i]

\* C1: with calls executed one at a time, the values recv has returned are
\* a prefix of the values whose sends succeeded, in send order: nothing is
\* lost, duplicated or reordered.
C1_FifoSequential == IsPrefix(received, sent)

\* three frames of differing lengths went through: the third was written
\* at the front of the arena (region B) while the second was still
\* unconsumed behind it, and was received after the drain-swap
C1_Witness ==
    /\ rpc = "idle" /\ spc = "idle"
    /\ Len(received) = 3 /\ received = sent
    /\ received[2] # received[3]
    /\ FrameAt(0, received[3]) /\ FrameAt(6, received[2])

\* C2: with the two sides interleaving, every value recv has returned is the
\* value sent at the same place in send order (received is a prefix of sent).
C2_HandOffConcurrent ==
    \A i \in 1 .. Len(received) : i <= Len(sent) /\ received[i] = sent[i]

\* position p holds written-but-unconsumed data as the header stands
Unconsumed(p) ==
    \/ header[A_START] <= p /\ p < header[A_END]
    \/ p < header[B_END]

\* the receiver is between the stores of its commit (lines 252-255), where
\* the header is a mix of the old cursors and the new ones
Committing == rpc \in {"store_a_start", "store_a_end", "store_b_end"}

\* C3: every byte a send writes goes to a position inside [0, len) that
\* holds no unconsumed data (judged outside the receiver's commit).
C3_WritesOnlyFreeSpace ==
    [][(spc = "write" /\ s_i' # s_i) =>
          /\ s_end + s_i < len
          /\ ~Committing => ~Unconsumed(s_end + s_i)]_vars

\* the second half of C3 alone: no byte is written over unconsumed data of
\* region A (TLC refutes it too: a fourth send writes at position 0 over the
\* frame that a drain-swap has just made the head of region A)
C3_NoOverwriteOfRegionA ==
    [][(spc = "write" /\ s_i' # s_i /\ ~Committing) =>
          ~(header[A_START] <= s_end + s_i /\ s_end + s_i < header[A_END])]_vars

\* the free space of invariant 3, from a header
FreeSpace(h) ==
    IF h[B_USE] = 1 THEN Sub32(h[A_START], h[B_END]) ELSE Sub32(len, h[A_END])

\* C4: a send returns "not enough space" exactly when its frame is longer
\* than the free space at the call, and then the header and the arena are
\* as they were; otherwise it returns Ok with A_START as it was and exactly
\* one of A_END, B_END advanced by the frame length.
C4_SendAllOrNothing ==
    [][(spc # "idle" /\ spc' = "idle") =>
          IF Len(s_bytes) > FreeSpace(s_hdr0)
          THEN s_ret' = "not enough space" /\ header' = s_hdr0 /\ data' = s_data0
          ELSE /\ s_ret' = "ok"
               /\ header'[A_START] = s_hdr0[A_START]
               /\ \/ /\ header'[A_END] = s_hdr0[A_END] + Len(s_bytes)
                     /\ header'[B_END] = s_hdr0[B_END]
                  \/ /\ header'[B_END] = s_hdr0[B_END] + Len(s_bytes)
                     /\ header'[A_END] = s_hdr0[A_END]]_vars

\* two sends filled the arena to its last byte (the second one fitting
\* exactly) and the third, made before any receive, was refused
C4_Witness ==
    /\ spc = "idle" /\ rpc = "idle" /\ s_ret = "not enough space"
    /\ Len(sent) = 2 /\ received = << >> /\ nsends = 3
    /\ header[A_END] = len

\* C5: the receiver is never left parked in its wait while the sender is
\* outside a call and a frame it committed sits unconsumed in region A
\* (nothing but the timeout would then end the wait).  Stated for a value
\* type whose frames recv can return.
C5_NoLostWakeup ==
    ~(/\ rpc = "parked" /\ spc = "idle"
      /\ ty = <<"optbool", "optbool">>
      /\ Len(sent) > Len(received)
      /\ header[A_START] < header[A_END])

\* C6 (the part TLC confirms): recv(None) never reaches the wait, and when
\* it returns it returns Ok(None) if no message was unconsumed at the call
\* and Ok(Some(v)) for the oldest unconsumed v otherwise.
C6_PollNeverWaits ==
    [][/\ rpc' \in {"wait", "parked"} => r_timeout' = "Some"
       /\ (rpc # "idle" /\ rpc' = "idle" /\ r_timeout = "None" /\ ty[1] = ty[2]) =>
             IF Len(sent) = Len(received)
             THEN r_ret' = <<"None", "-">>
             ELSE r_ret' = <<"Some", sent[Len(received) + 1]>>]_vars

\* C6: a recv(None) call made on a channel that holds a complete frame of
\* the receiver's type returns.
C6_PollReturns ==
    (rpc = "decode" /\ r_timeout = "None" /\ ty[1] = ty[2] /\ Len(sent) > Len(received))
        ~> (rpc = "idle")

\* C7: 0 <= A_START <= A_END <= len in every state, so after every store.
C7_RegionAWithinArena ==
    /\ 0 <= header[A_START]
    /\ header[A_START] <= header[A_END]
    /\ header[A_END] <= len

\* C8: whenever B_USE = 1, 0 <= B_END <= A_START, in every state.
C8_RegionBBelowRegionA ==
    header[B_USE] = 1 => (0 <= header[B_END] /\ header[B_END] <= header[A_START])

\* both sides are outside a call
AtRest == spc = "idle" /\ rpc = "idle"

\* C7 and C8 between calls only (TLC refutes these too: the broken cursors
\* are not a passing state of a commit in progress, they stay)
C7_RegionAWithinArenaAtRest == AtRest => C7_RegionAWithinArena

C8_RegionBBelowRegionAAtRest == AtRest => C8_RegionBBelowRegionA

\* C9: a recv that returns the deserialization error has made no store to
\* the header, which is as it was when the call started.
C9_DecodeErrorLeavesHeader ==
    [][(rpc # "idle" /\ rpc' = "idle" /\ r_ret'[1] = "Err") =>
          (~r_stored /\ header' = r_hdr0)]_vars

\* a recv has returned the error and the frame it failed on is still the
\* one at A_START
C9_Witness ==
    /\ rpc = "idle" /\ spc = "idle" /\ r_ret[1] = "Err"
    /\ header[A_START] = 0 /\ header[A_END] > 0
    /\ FrameAt(0, sent[1])

\* C10: within one recv call the codec answers Expects at most twice.
C10_TwoRounds == r_rounds <= 2

\* the handles over the arena: the buffers they view are its two buffers
SendersOverArena == {h \in DOMAIN senders : ViewsTheArena(senders[h])}

ReceiversOverArena == {h \in DOMAIN receivers : ViewsTheArena(receivers[h])}

\* C11: at most one Sender handle and at most one Receiver handle over the
\* arena exist, whatever channels have been exported and imported.
C11_OneSenderOneReceiver ==
    /\ Cardinality(SendersOverArena) <= 1
    /\ Cardinality(ReceiversOverArena) <= 1

\* C11 (the part TLC confirms): a Channel object hands its Sender out at
\* most once; Channel::sender() on an object whose sender is gone answers
\* "sender is already taken" and hands out nothing.
C11_SecondTakeFails ==
    [][/\ \A c \in DOMAIN chans : chans[c].sender = 0 =>
              (chans'[c].sender = 0 /\ (handed' # handed => take_ret' = "ok"))
       /\ handed' # handed =>
              \E c \in DOMAIN chans :
                  /\ chans[c].sender # 0 /\ chans[c].sender \notin handed
                  /\ chans'[c].sender = 0
                  /\ handed' = handed \cup {chans[c].sender}
       /\ (take_ret' = "sender is already taken" /\ take_ret' # take_ret) =>
              (handed' = handed /\ chans' = chans)]_vars

\* C12: every handle, imported ones included, views the two buffers of the
\* arena with the capacity len, every exported array holds those two
\* buffers, header first; and whichever handles the calls go through, the
\* values returned are a prefix of the values sent, in send order.
C12_ImportAliases ==
    /\ \A h \in DOMAIN senders : senders[h] = channel
    /\ \A h \in DOMAIN receivers : receivers[h] = channel
    /\ \A k \in DOMAIN exported : exported[k] = <<HeaderBuffer, DataBuffer>>
    /\ \A i \in DOMAIN received : i <= Len(sent) /\ received[i] = sent[i]

\* a channel was imported; one value went from the original Sender to the
\* imported Receiver and another from the imported Sender to the original
\* Receiver, and everything sent has arrived in order
C12_Witness ==
    /\ AtRest /\ Len(chans) = 2
    /\ <<1, 2>> \in delivered /\ <<2, 1>> \in delivered
    /\ Len(received) >= 2 /\ received = sent
    /\ received[1] # received[2]

\* the value the receiver's next step stores to B_USE, if it is such a store
ReceiverBUseStore ==
    CASE rpc = "store_b_use" -> {IF r_b_use THEN 1 ELSE 0}
      [] rpc = "ms_store" -> {1}
      [] OTHER -> {}

\* the value the sender's next step stores to B_USE, if it is such a store
SenderBUseStore == IF spc = "ms_store" THEN {1} ELSE {}

\* C13: A_END and B_END change only in a step of the sender and A_START
\* only in a step of the receiver; and when both sides are about to store
\* to B_USE, they store the same value.
C13_StoresBySide ==
    [][/\ (header'[A_END] # header[A_END] \/ header'[B_END] # header[B_END]) =>
              spc' # spc
       /\ header'[A_START] # header[A_START] => rpc' # rpc
       /\ \A x \in ReceiverBUseStore : \A y \in SenderBUseStore : x = y]_vars

\* the first part of C13 alone, with calls one at a time: refuted as well,
\* the receiver's commit rewrites A_END and B_END at every drain
C13_WriteCursorsBySender ==
    [][(header'[A_END] # header[A_END] \/ header'[B_END] # header[B_END]) =>
          spc' # spc]_vars

\* the last part of C13 alone: refuted as well, the receiver's commit stores
\* B_USE = 0 while the sender's maybe_switch stores B_USE = 1
C13_BUseRaceSameValue ==
    \A x \in ReceiverBUseStore : \A y \in SenderBUseStore : x = y

\* the part of C13 that TLC confirms: A_START changes only in a step of the
\* receiver
C13_ReadCursorByReceiver ==
    [][header'[A_START] # header[A_START] => rpc' # rpc]_vars

\* the receiver's step is one pass of the copy loop of lines 231-233
CopyStep == rpc = "copy" /\ r_i' # r_i

\* position p lies in a frame the sender is writing and has not committed
BeingWritten(p) ==
    /\ spc \in {"write", "store_end"}
    /\ s_end <= p /\ p < s_end + Len(s_bytes)

\* C14: when recv copies a byte of its n-byte probe, region A of the header
\* as it stands holds at least n bytes from the probe's start, the byte lies
\* inside [A_START, A_END), and it is not of a frame still being written.
C14_CopiesCommittedBytes ==
    [][CopyStep =>
          /\ header[A_START] = r_a_start
          /\ header[A_END] - header[A_START] >= r_sz
          /\ r_a_start + r_i < header[A_END]
          /\ ~BeingWritten(r_a_start + r_i)]_vars

\* C14 with a concurrent send left out (CopyStep as above): TLC confirms
\* this under SeqSpec
C14_CopiesCommittedBytesSeq ==
    [][CopyStep =>
          /\ header[A_START] = r_a_start
          /\ header[A_END] - header[A_START] >= r_sz
          /\ r_a_start + r_i < header[A_END]]_vars

\* the part of C14 the sender's order of steps gives: at the moment a
\* cursor store commits a frame, all its bytes are in the arena (refuted as
\* well where the frame was written past the end of the arena, C3)
C14_BytesBeforeCursor ==
    [][(spc = "store_end" /\ spc' # spc) =>
          \A i \in 1 .. Len(s_bytes) :
              s_end + i - 1 < len /\ data[s_end + i - 1] = s_bytes[i]]_vars

\* the tail of the arena is smaller than the space before region A
TailSmaller(h) == len - h[A_END] < h[A_START] - h[B_END]

\* the region-switch policy has been applied to header h
PolicyApplied(h) == TailSmaller(h) => h[B_USE] = 1

\* C15: with calls one at a time, a send that returns Ok and a recv that
\* returns a value leave a header to which the policy has been applied;
\* B_USE goes from 0 to 1 only when the tail is smaller; and between calls
\* B_USE = 0 implies len - A_END >= A_START - B_END.
C15_SwitchPolicyApplied ==
    /\ [](AtRest => PolicyApplied(header))
    /\ [][/\ (spc # "idle" /\ spc' = "idle" /\ s_ret' = "ok") => PolicyApplied(header')
          /\ (rpc # "idle" /\ rpc' = "idle" /\ r_ret'[1] = "Some") => PolicyApplied(header')
          /\ (header[B_USE] = 0 /\ header'[B_USE] = 1) => TailSmaller(header)]_vars

\* a third send, written to region B, has returned Ok after its
\* maybe_switch found the tail still smaller and stored B_USE = 1
C15_Witness ==
    /\ AtRest /\ s_ret = "ok" /\ Len(sent) >= 3
    /\ header[B_USE] = 1 /\ TailSmaller(header)
    /\ header[B_END] > 0 /\ header[A_START] > header[B_END]

\* a header from its four fields
Hdr(s, e, b, u) == (A_START :> s) @@ (A_END :> e) @@ (B_END :> b) @@ (B_USE :> u)

\* the receiver's step is the last of the four stores of its commit
CommitDone == rpc = "store_b_end" /\ rpc' = "ms_a_start"

\* C16: with calls one at a time, the four stores of a recv that took an
\* n-byte frame from header (s, e, b, u) leave, before maybe_switch runs,
\* (s+n, e, b, u) when s+n < e, (0, b, 0, 0) when s+n = e and u = 1, and
\* (0, 0, b, 0) when s+n = e and u = 0.
C16_CommitExact ==
    [][CommitDone =>
          LET s == r_hdr0[A_START]
              e == r_hdr0[A_END]
              b == r_hdr0[B_END]
              u == r_hdr0[B_USE]
              n == r_sz
          IN  /\ s + n <= e
              /\ s + n < e => header' = Hdr(s + n, e, b, u)
              /\ (s + n = e /\ u = 1) => header' = Hdr(0, b, 0, 0)
              /\ (s + n = e /\ u = 0) => header' = Hdr(0, 0, b, 0)]_vars

\* a drain-swap has just been committed: the recv started with B_USE = 1
\* and a frame in region B, and region B is now region A
C16_Witness ==
    /\ rpc = "ms_a_start" /\ spc = "idle"
    /\ r_hdr0[B_USE] = 1 /\ r_hdr0[B_END] > 0
    /\ r_hdr0[A_START] + r_sz = r_hdr0[A_END]
    /\ header = Hdr(0, r_hdr0[B_END], 0, 0)

\* a recv call returns Ok(None) in this step
ReturnsNone == rpc # "idle" /\ rpc' = "idle" /\ r_ret'[1] = "None"

\* C17: a recv that returns Ok(None), from the poll or from the expired
\* wait, has made no store to the header, and returns with the header and
\* the arena as they stand and with no probe buffer kept; no step of recv
\* changes the header without counting as a store, none writes the arena.
C17_NoneLeavesNoTrace ==
    [][/\ ReturnsNone =>
              /\ ~r_stored
              /\ header' = header /\ data' = data
              /\ r_array' = << >> /\ r_sz' = 0
       /\ (header' # header /\ spc' = spc) => r_stored'
       /\ data' # data => (spc = "write" /\ s_i' # s_i)]_vars

\* C17 with calls one at a time: the header at the return of Ok(None) is
\* the header of the call, which is the one the sender left
C17_NoneLeavesHeaderSeq ==
    [][ReturnsNone => (header' = r_hdr0 /\ header' = header)]_vars

\* a recv has returned Ok(None) after an earlier recv returned a value,
\* and the frame the sender committed last is in region A, untouched
C17_Witness ==
    /\ AtRest /\ r_ret[1] = "None"
    /\ Len(received) >= 1 /\ Len(sent) > Len(received)
    /\ ty[1] = ty[2]
    /\ header[A_START] < header[A_END]
    /\ FrameAt(header[A_START], sent[Len(sent)])

\* C18: no subtraction of unused() and maybe_switch() wraps: where
\* a_start - b_end is evaluated (lines 75, 86) b_end <= a_start, and where
\* len - a_end is evaluated (lines 78, 86) a_end <= len, for the operands
\* as loaded, on either side.
C18_NoUnderflow ==
    [][/\ (spc = "unused_b_end" /\ spc' # spc) => header[B_END] <= s_a_start
       /\ (spc = "unused_a_end" /\ spc' # spc) => header[A_END] <= len
       /\ (spc = "ms_b_end" /\ spc' # spc) =>
              (s_ms[2] <= len /\ header[B_END] <= s_ms[1])
       /\ (rpc = "ms_b_end" /\ rpc' # rpc) =>
              (r_ms[2] <= len /\ header[B_END] <= r_ms[1])]_vars

\* C18 for unused() alone (the subtraction that decides whether a send may
\* write): refuted as well
C18_UnusedNoUnderflow ==
    [][/\ (spc = "unused_b_end" /\ spc' # spc) => header[B_END] <= s_a_start
       /\ (spc = "unused_a_end" /\ spc' # spc) => header[A_END] <= len]_vars

\* C19: between calls, while a committed message has not been returned,
\* region A is not empty; in particular region B holds data only while
\* region A does.
C19_NoStrandedMessage ==
    AtRest =>
        /\ Len(sent) > Len(received) => header[A_START] < header[A_END]
        /\ header[B_END] > 0 => header[A_START] < header[A_END]

\* C19 for region B alone: refuted as well, a frame is left in region B
\* with region A empty, where no recv looks
C19_RegionBNeverAlone ==
    AtRest => (header[B_END] > 0 => header[A_START] < header[A_END])

\* C20: with calls one at a time, whenever every committed message has been
\* returned the header is all zero again, so that unused() is len.
C20_CapacityRestored ==
    (AtRest /\ Len(received) = Len(sent)) =>
        (header = Hdr(0, 0, 0, 0) /\ FreeSpace(header) = len)

\* four messages went through, region B was used and promoted on the way
\* (the third frame was written at the front of the arena), and all are
\* received: the header is back at zero
C20_Witness ==
    /\ AtRest /\ Len(sent) = 4 /\ received = sent
    /\ r_ret[1] = "Some"
    /\ header = Hdr(0, 0, 0, 0)
    /\ FrameAt(0, sent[3]) /\ FrameAt(6, sent[2])

====
